---- MODULE Spec2Model ----
(***************************************************************************)
(* NIU cloud API: the cloud connector client (src/index.js) and the        *)
(* telemetry aggregation pipeline that drives it (src/unnamed/part_000).   *)
(*                                                                         *)
(* JavaScript values are tagged records: field t is the result of typeof,  *)
(* field k tells null, arrays and plain objects apart.                     *)
(***************************************************************************)
EXTENDS Integers, Sequences, FiniteSets, TLC

VARIABLES
    token,      \* client._token
    pending,    \* requests handed to request() whose callback has not run
    last,       \* the last client call or settled promise (history)
    now,        \* wall clock read by _getTime()
    alive,      \* the process runs (no uncaught exception has ended it)
    netCalls,   \* number of times request() was invoked (history)
    env,        \* process.env: API_ACCOUNT, API_PWD, API_COUNTRY_CODE
    pc,         \* the pipeline step whose promise the chain waits for
    ready,      \* that promise is resolved and its then-handler is due
    result,     \* the value that promise was resolved with
    data,       \* the snapshot object `data`
    vehicles,   \* the module variable `vehicles`
    calls,      \* the requests the pipeline handed to request(), in order (history)
    settled,    \* number of pipeline calls whose promise was resolved (history)
    pipeErr,    \* the value received by the pipeline's catch handler
    reply       \* what the last GET /api request was answered with (history)

vars == <<token, pending, last, now, alive, netCalls, env, pc, ready, result, data, vehicles, calls, settled, pipeErr, reply>>

clientVars == <<token, pending, last, now, alive, netCalls>>
pipeVars == <<env, pc, ready, result, data, vehicles, calls, settled, pipeErr, reply>>

(***************************************************************************)
(* Bounds                                                                  *)
(***************************************************************************)
MaxCalls == 2       \* requests a client run may issue
MaxPending == 1     \* requests a client run may have in flight at once
MaxClock == 1       \* ticks of the wall clock

(***************************************************************************)
(* JavaScript values                                                       *)
(***************************************************************************)
Undefined == [t |-> "undefined", k |-> "undefined"]
Null == [t |-> "object", k |-> "null"]
Str(s) == [t |-> "string", k |-> "string", s |-> s]
Num(n) == [t |-> "number", k |-> "number", num |-> n, den |-> 1]

TypeOf(v) == v.t

\* o.f for an object o: the field's value, or undefined when o has no such field
Get(o, f) == IF f \in DOMAIN o THEN o[f] ELSE Undefined

\* arrays: a[i] and v.length
Arr(elems) == [t |-> "object", k |-> "array", elems |-> elems]
Index(a, i) ==
    IF a.k = "array" /\ i < Len(a.elems) THEN a.elems[i + 1] ELSE Undefined
Length(v) ==
    IF v.k = "array" THEN Num(Len(v.elems))
    ELSE IF "length" \in DOMAIN v THEN v["length"] ELSE Undefined

\* evaluating o.f throws a TypeError exactly when o is undefined or null
Throws(o) == o.k \in {"undefined", "null"}


EmptyObj == [t |-> "object", k |-> "object"]
Obj(fields) == EmptyObj @@ fields

(***************************************************************************)
(* src/index.js: URLs                                                      *)
(***************************************************************************)
AccountBaseUrl == "https://account.niu.com"
AppApiBaseUrl == "https://app-api.niu.com"

(***************************************************************************)
(* _getTime: the wall clock, abstracted to the tick it is read at          *)
(***************************************************************************)
_getTime == Num(now)

_error_StampsCause(errorInfo, funcName) ==
    Obj([debug |-> Obj([date |-> _getTime, funcName |-> Str(funcName)]),
         error |-> IF TypeOf(errorInfo) = "string"
                     THEN Obj([message |-> errorInfo, date |-> _getTime])
                   ELSE IF TypeOf(errorInfo) = "object"
                     THEN errorInfo
                   ELSE Obj([message |-> Str("Invalid error info.")])])

_error_NeverPassesThrough(errorInfo, funcName) ==
    Obj([debug |-> Obj([date |-> _getTime, funcName |-> Str(funcName)]),
         error |-> IF TypeOf(errorInfo) = "string"
                     THEN Obj([message |-> errorInfo])
                   ELSE Obj([message |-> Str("Invalid error info.")])])

(***************************************************************************)
(* _error: the error descriptor.  The `client: this` back reference is the *)
(* one client of the model and is left out of the record.                  *)
(***************************************************************************)
_error(errorInfo, funcName) ==
    Obj([debug |-> Obj([date |-> _getTime, funcName |-> Str(funcName)]),
         error |-> IF TypeOf(errorInfo) = "string"
                     THEN Obj([message |-> errorInfo])
                   ELSE IF TypeOf(errorInfo) = "object"
                     THEN errorInfo
                   ELSE Obj([message |-> Str("Invalid error info.")])])

(***************************************************************************)
(* What a client method returns at once: a rejected or resolved promise,   *)
(* a pending promise whose request went to request(), or a thrown          *)
(* TypeError.  tok is client._token after the call.                        *)
(***************************************************************************)
NoReq == [method |-> "none"]
TypeError == [t |-> "object", k |-> "TypeError"]

Reject(v) == [kind |-> "reject", value |-> v, req |-> NoReq, tok |-> token]
Resolve(v, tok) == [kind |-> "resolve", value |-> v, req |-> NoReq, tok |-> tok]
Throw == [kind |-> "throw", value |-> TypeError, req |-> NoReq, tok |-> token]
Request(cb, r) == [kind |-> "request", value |-> Undefined, tok |-> token,
                   req |-> [cb |-> cb] @@ r]

\* the value a promise of the client resolves with: {client: this, result: result}
Result(body) == Obj([result |-> body])

createSessionToken_NoPasswordCheck(options) ==
    LET funcName == "createSessionToken()" IN
    IF TypeOf(options) # "object"
      THEN Reject(_error(Str("Options is missing."), funcName))
    ELSE IF Throws(options)
      THEN Throw
    ELSE IF TypeOf(Get(options, "account")) # "string"
      THEN Reject(_error(Str("Account is missing."), funcName))
    ELSE IF TypeOf(Get(options, "countryCode")) # "string"
      THEN Reject(_error(Str("Country code is missing."), funcName))
    ELSE Request(funcName,
                 [method |-> "POST",
                  url |-> AccountBaseUrl \o "/appv2/login",
                  token |-> Undefined,
                  form |-> options])

createSessionToken_RejectsEmpty(options) ==
    LET funcName == "createSessionToken()"
        bad(v) == TypeOf(v) # "string" \/ v = Str("")
    IN
    IF TypeOf(options) # "object"
      THEN Reject(_error(Str("Options is missing."), funcName))
    ELSE IF Throws(options)
      THEN Throw
    ELSE IF bad(Get(options, "account"))
      THEN Reject(_error(Str("Account is missing."), funcName))
    ELSE IF bad(Get(options, "password"))
      THEN Reject(_error(Str("Password is missing."), funcName))
    ELSE IF bad(Get(options, "countryCode"))
      THEN Reject(_error(Str("Country code is missing."), funcName))
    ELSE Request(funcName,
                 [method |-> "POST",
                  url |-> AccountBaseUrl \o "/appv2/login",
                  token |-> Undefined,
                  form |-> options])

(***************************************************************************)
(* createSessionToken: the checks made before the login request            *)
(***************************************************************************)
createSessionToken(options) ==
    LET funcName == "createSessionToken()" IN
    IF TypeOf(options) # "object"
      THEN Reject(_error(Str("Options is missing."), funcName))
    ELSE IF Throws(options)
      THEN Throw
    ELSE IF TypeOf(Get(options, "account")) # "string"
      THEN Reject(_error(Str("Account is missing."), funcName))
    ELSE IF TypeOf(Get(options, "password")) # "string"
      THEN Reject(_error(Str("Password is missing."), funcName))
    ELSE IF TypeOf(Get(options, "countryCode")) # "string"
      THEN Reject(_error(Str("Country code is missing."), funcName))
    ELSE Request(funcName,
                 [method |-> "POST",
                  url |-> AccountBaseUrl \o "/appv2/login",
                  token |-> Undefined,
                  form |-> options])

(***************************************************************************)
(* The outcome of a request() callback: the promise is resolved or         *)
(* rejected, or the callback throws (outside any promise: an uncaught      *)
(* exception).  tok is client._token after the callback.                   *)
(***************************************************************************)
Rejected(v) == [kind |-> "reject", value |-> v, tok |-> token]
Resolved(v, tok) == [kind |-> "resolve", value |-> v, tok |-> tok]
Thrown == [kind |-> "throw", value |-> TypeError, tok |-> token]

createSessionTokenCallback_StoresBeforeCheck(error, response, body) ==
    LET funcName == "createSessionToken()" IN
    IF error # Null
      THEN Rejected(_error(error, funcName))
    ELSE IF TypeOf(response) # "object"
      THEN Rejected(_error(Str("Invalid response."), funcName))
    ELSE IF TypeOf(Get(response, "statusCode")) # "number"
      THEN Rejected(_error(Str("Status code is missing."), funcName))
    ELSE IF Get(response, "statusCode") # Num(200)
      THEN Rejected(_error(Str("Bad request."), funcName))
    ELSE IF TypeOf(body) # "object"
      THEN Rejected(_error(Str("No body received."), funcName))
    ELSE IF Throws(body)
      THEN Thrown
    ELSE IF TypeOf(Get(body, "status")) = "number" /\ Get(body, "status") # Num(0)
      THEN Rejected(_error(Str("Invalid login data."), funcName))
    ELSE IF TypeOf(Get(body, "data")) # "object"
      THEN Rejected(_error(Str("Data is missing in response."), funcName))
    ELSE IF Throws(Get(body, "data"))
      THEN Thrown
    ELSE IF TypeOf(Get(Get(body, "data"), "token")) # "string"
      THEN Rejected(_error(Str("Token is missing in response."), funcName))
    ELSE IF Get(Get(body, "data"), "token").s = ""
      THEN [kind |-> "reject", tok |-> "",
            value |-> _error(Str("Token is empty in response."), funcName)]
    ELSE Resolved(Result(Get(Get(body, "data"), "token")),
                  Get(Get(body, "data"), "token").s)

\* createSessionToken: the callback given to request()
createSessionTokenCallback(error, response, body) ==
    LET funcName == "createSessionToken()" IN
    IF error # Null
      THEN Rejected(_error(error, funcName))
    ELSE IF TypeOf(response) # "object"
      THEN Rejected(_error(Str("Invalid response."), funcName))
    ELSE IF TypeOf(Get(response, "statusCode")) # "number"
      THEN Rejected(_error(Str("Status code is missing."), funcName))
    ELSE IF Get(response, "statusCode") # Num(200)
      THEN Rejected(_error(Str("Bad request."), funcName))
    ELSE IF TypeOf(body) # "object"
      THEN Rejected(_error(Str("No body received."), funcName))
    ELSE IF Throws(body)
      THEN Thrown
    ELSE IF TypeOf(Get(body, "status")) = "number" /\ Get(body, "status") # Num(0)
      THEN Rejected(_error(Str("Invalid login data."), funcName))
    ELSE IF TypeOf(Get(body, "data")) # "object"
      THEN Rejected(_error(Str("Data is missing in response."), funcName))
    ELSE IF Throws(Get(body, "data"))
      THEN Thrown
    ELSE IF TypeOf(Get(Get(body, "data"), "token")) # "string"
      THEN Rejected(_error(Str("Token is missing in response."), funcName))
    ELSE IF Get(Get(body, "data"), "token").s = ""
      THEN Rejected(_error(Str("Token is empty in response."), funcName))
    ELSE Resolved(Result(Get(Get(body, "data"), "token")),
                  Get(Get(body, "data"), "token").s)

setSessionToken_NoStore(options) ==
    LET funcName == "setSessionToken()" IN
    IF TypeOf(options) # "object"
      THEN Reject(_error(Str("Options is missing."), funcName))
    ELSE IF Throws(options)
      THEN Throw
    ELSE IF TypeOf(Get(options, "token")) # "string"
      THEN Reject(_error(Str("Token is missing."), funcName))
    ELSE Resolve(Result(Null), token)

(***************************************************************************)
(* setSessionToken                                                         *)
(***************************************************************************)
setSessionToken(options) ==
    LET funcName == "setSessionToken()" IN
    IF TypeOf(options) # "object"
      THEN Reject(_error(Str("Options is missing."), funcName))
    ELSE IF Throws(options)
      THEN Throw
    ELSE IF TypeOf(Get(options, "token")) # "string"
      THEN Reject(_error(Str("Token is missing."), funcName))
    ELSE Resolve(Result(Null), Get(options, "token").s)

(***************************************************************************)
(* _makeRequest: the checks made before the request, and the request       *)
(***************************************************************************)
_makeRequest_NoToken(options) ==
    LET funcName == "_makeRequest()" IN
    IF TypeOf(options) # "object"
      THEN Reject(_error(Str("Options is missing."), funcName))
    ELSE IF Throws(options)
      THEN Throw
    ELSE IF TypeOf(Get(options, "path")) # "string"
      THEN Reject(_error(Str("Path is missing."), funcName))
    ELSE Request(funcName,
                 [method |-> IF TypeOf(Get(options, "postData")) = "object"
                               THEN "POST" ELSE "GET",
                  url |-> AppApiBaseUrl \o Get(options, "path").s,
                  token |-> Str(""),
                  form |-> IF TypeOf(Get(options, "postData")) = "object"
                             THEN Get(options, "postData") ELSE Undefined])

_makeRequest_RejectsEmptyPath(options) ==
    LET funcName == "_makeRequest()" IN
    IF TypeOf(options) # "object"
      THEN Reject(_error(Str("Options is missing."), funcName))
    ELSE IF Throws(options)
      THEN Throw
    ELSE IF TypeOf(Get(options, "path")) # "string" \/ Get(options, "path") = Str("")
      THEN Reject(_error(Str("Path is missing."), funcName))
    ELSE Request(funcName,
                 [method |-> IF TypeOf(Get(options, "postData")) = "object"
                               THEN "POST" ELSE "GET",
                  url |-> AppApiBaseUrl \o Get(options, "path").s,
                  token |-> Str(token),
                  form |-> IF TypeOf(Get(options, "postData")) = "object"
                             THEN Get(options, "postData") ELSE Undefined])

_makeRequest(options) ==
    LET funcName == "_makeRequest()" IN
    IF TypeOf(options) # "object"
      THEN Reject(_error(Str("Options is missing."), funcName))
    ELSE IF Throws(options)
      THEN Throw
    ELSE IF TypeOf(Get(options, "path")) # "string"
      THEN Reject(_error(Str("Path is missing."), funcName))
    ELSE Request(funcName,
                 [method |-> IF TypeOf(Get(options, "postData")) = "object"
                               THEN "POST" ELSE "GET",
                  url |-> AppApiBaseUrl \o Get(options, "path").s,
                  token |-> Str(token),
                  form |-> IF TypeOf(Get(options, "postData")) = "object"
                             THEN Get(options, "postData") ELSE Undefined])

_makeRequestCallback_BodyFirst(error, response, body) ==
    LET funcName == "_makeRequest()" IN
    IF TypeOf(body) = "object" /\ ~Throws(body)
       /\ TypeOf(Get(body, "status")) = "number" /\ Get(body, "status") # Num(0)
      THEN Rejected(_error(body, funcName))
    ELSE IF error # Null
      THEN Rejected(_error(error, funcName))
    ELSE IF TypeOf(response) # "object"
      THEN Rejected(_error(Str("Unknown error."), funcName))
    ELSE IF TypeOf(Get(response, "statusCode")) # "number"
      THEN Rejected(_error(Str("Status code is missing."), funcName))
    ELSE IF Get(response, "statusCode") # Num(200)
      THEN Rejected(_error(Str("Bad request."), funcName))
    ELSE IF TypeOf(body) # "object"
      THEN Rejected(_error(Str("No body received."), funcName))
    ELSE IF Throws(body)
      THEN Thrown
    ELSE Resolved(Result(body), token)

\* _makeRequest: the callback given to request()
_makeRequestCallback(error, response, body) ==
    LET funcName == "_makeRequest()" IN
    IF error # Null
      THEN Rejected(_error(error, funcName))
    ELSE IF TypeOf(response) # "object"
      THEN Rejected(_error(Str("Unknown error."), funcName))
    ELSE IF TypeOf(Get(response, "statusCode")) # "number"
      THEN Rejected(_error(Str("Status code is missing."), funcName))
    ELSE IF Get(response, "statusCode") # Num(200)
      THEN Rejected(_error(Str("Bad request."), funcName))
    ELSE IF TypeOf(body) # "object"
      THEN Rejected(_error(Str("No body received."), funcName))
    ELSE IF Throws(body)
      THEN Thrown
    ELSE IF TypeOf(Get(body, "status")) = "number" /\ Get(body, "status") # Num(0)
      THEN Rejected(_error(body, funcName))
    ELSE Resolved(Result(body), token)

(***************************************************************************)
(* The endpoint accessors                                                  *)
(***************************************************************************)
getVehicles ==
    LET funcName == "getVehicles()" IN
    IF token = ""
      THEN Reject(_error(Str("No valid token available."), funcName))
    ELSE _makeRequest(Obj([path |-> Str("/motoinfo/list"), postData |-> EmptyObj]))

snChecks_NoTokenCheck(options, funcName, request) ==
    IF TypeOf(options) # "object"
      THEN Reject(_error(Str("Options is missing."), funcName))
    ELSE IF Throws(options)
      THEN Throw
    ELSE IF TypeOf(Get(options, "sn")) # "string"
      THEN Reject(_error(Str("Vehicle serial number is missing."), funcName))
    ELSE request

snChecks_OptionsFirst(options, funcName, request) ==
    IF TypeOf(options) # "object"
      THEN Reject(_error(Str("Options is missing."), funcName))
    ELSE IF token = ""
      THEN Reject(_error(Str("No valid token available."), funcName))
    ELSE IF Throws(options)
      THEN Throw
    ELSE IF TypeOf(Get(options, "sn")) # "string"
      THEN Reject(_error(Str("Vehicle serial number is missing."), funcName))
    ELSE request

\* the checks shared by every accessor that takes a serial number
snChecks(options, funcName, request) ==
    IF token = ""
      THEN Reject(_error(Str("No valid token available."), funcName))
    ELSE IF TypeOf(options) # "object"
      THEN Reject(_error(Str("Options is missing."), funcName))
    ELSE IF Throws(options)
      THEN Throw
    ELSE IF TypeOf(Get(options, "sn")) # "string"
      THEN Reject(_error(Str("Vehicle serial number is missing."), funcName))
    ELSE request

getBatteryInfo(options) ==
    snChecks(options, "getBatteryInfo()",
        _makeRequest(Obj([path |-> Str("/v3/motor_data/battery_info?sn="
                                       \o Get(options, "sn").s)])))

getBatteryHealth(options) ==
    snChecks(options, "getBatteryInfo()",
        _makeRequest(Obj([path |-> Str("/v3/motor_data/battery_info/health?sn="
                                       \o Get(options, "sn").s)])))

getMotorInfo(options) ==
    snChecks(options, "getMotorInfo()",
        _makeRequest(Obj([path |-> Str("/v3/motor_data/index_info?sn="
                                       \o Get(options, "sn").s)])))

getOverallTally(options) ==
    snChecks(options, "getOverallTally()",
        _makeRequest(Obj([path |-> Str("/motoinfo/overallTally"),
                          postData |-> Obj([sn |-> Get(options, "sn")])])))

getTracks_NoPageSizeCheck(options) ==
    LET funcName == "getTracks()" IN
    snChecks(options, funcName,
        IF TypeOf(Get(options, "index")) # "number"
          THEN Reject(_error(Str("Index is missing."), funcName))
        ELSE _makeRequest(Obj([path |-> Str("/v3/motor_data/track"),
                               postData |-> Obj([sn |-> Get(options, "sn"),
                                                 index |-> Get(options, "index"),
                                                 pagesize |-> Get(options, "pageSize")])])))

getTracks(options) ==
    LET funcName == "getTracks()" IN
    snChecks(options, funcName,
        IF TypeOf(Get(options, "index")) # "number"
          THEN Reject(_error(Str("Index is missing."), funcName))
        ELSE IF TypeOf(Get(options, "pageSize")) # "number"
          THEN Reject(_error(Str("Page size is missing."), funcName))
        ELSE _makeRequest(Obj([path |-> Str("/v3/motor_data/track"),
                               postData |-> Obj([sn |-> Get(options, "sn"),
                                                 index |-> Get(options, "index"),
                                                 pagesize |-> Get(options, "pageSize")])])))

getTrackDetail(options) ==
    LET funcName == "getTrackDetail()" IN
    snChecks(options, funcName,
        IF TypeOf(Get(options, "trackId")) # "string"
          THEN Reject(_error(Str("Track ID is missing."), funcName))
        ELSE IF TypeOf(Get(options, "trackDate")) # "string"
          THEN Reject(_error(Str("Track date is missing."), funcName))
        ELSE _makeRequest(Obj([path |-> Str("/motoinfo/track/detail"),
                               postData |-> Obj([sn |-> Get(options, "sn"),
                                                 trackId |-> Get(options, "trackId"),
                                                 date |-> Get(options, "trackDate")])])))

\* Called by the pipeline and not defined in src/index.js: modelled as the
\* accessors of the specification, each requiring a session and a serial number.
getVehiclePos(options) ==
    snChecks(options, "getVehiclePos()",
        _makeRequest(Obj([path |-> Str("/motoinfo/currentpos"),
                          postData |-> Obj([sn |-> Get(options, "sn")])])))

getFirmwareVersion(options) ==
    snChecks(options, "getFirmwareVersion()",
        _makeRequest(Obj([path |-> Str("/motorota/getfirmwareversion"),
                          postData |-> Obj([sn |-> Get(options, "sn")])])))

(***************************************************************************)
(* The arguments a caller may pass and the answers request() may deliver   *)
(***************************************************************************)
CredVals == {Undefined, Str(""), Str("a")}
LoginOptions ==
    {Undefined, Null} \cup
    {Obj([account |-> a, password |-> p, countryCode |-> c]) :
        a \in CredVals, p \in CredVals, c \in CredVals \cup {Num(49)}}
TokenOptions ==
    {Undefined, Null} \cup
    {Obj([token |-> v]) : v \in {Undefined, Num(1), Str(""), Str("T1"), Str("T2")}}
MakeRequestOptions ==
    {Undefined, Null} \cup
    {Obj([path |-> p, postData |-> d]) :
        p \in {Undefined, Str(""), Str("/x")}, d \in {Undefined, EmptyObj}}
SnVals == {Undefined, Num(1), Str("SN1")}
SnOptions == {Undefined, Null} \cup {Obj([sn |-> v]) : v \in SnVals}
TracksOptions ==
    {Undefined} \cup
    {Obj([sn |-> v, index |-> i, pageSize |-> n]) :
        v \in {Undefined, Str("SN1")}, i \in {Undefined, Str("0"), Num(0)}, n \in {Undefined, Str("1"), Num(1)}}
TrackDetailOptions ==
    {Undefined} \cup
    {Obj([sn |-> v, trackId |-> i, trackDate |-> d]) :
        v \in {Undefined, Str("SN1")}, i \in {Undefined, Num(7), Str("7")}, d \in {Undefined, Str("20220319")}}

Errors == {Null, Obj([code |-> Str("ECONNRESET")])}
Responses ==
    {Undefined} \cup
    {Obj([statusCode |-> c]) : c \in {Undefined, Str("200"), Num(200), Num(404)}}
BodyStatus == {Undefined, Str("1"), Num(0), Num(1)}
NoBody == {Undefined, Null, Str("<html>")}
AppBodies == NoBody \cup {Obj([status |-> st]) : st \in BodyStatus}
LoginBodies ==
    NoBody \cup
    {Obj([status |-> st, data |-> d]) :
        st \in {Num(0), Num(1)},
        d \in {Undefined, Null} \cup
              {Obj([token |-> tk]) : tk \in {Undefined, Str(""), Str("T1")}}}

(***************************************************************************)
(* History of the last client event: a call with its argument and what it  *)
(* returned, or a callback with its inputs and the promise's outcome;      *)
(* tok0 is client._token before the event                                  *)
(***************************************************************************)
NoEvent ==
    [ev |-> "none", op |-> "", arg |-> Undefined, kind |-> "none", value |-> Undefined,
     tok0 |-> "", req |-> NoReq, error |-> Undefined, response |-> Undefined, body |-> Undefined]
CallEvent(op, options, r) ==
    [ev |-> "call", op |-> op, arg |-> options, kind |-> r.kind, value |-> r.value,
     tok0 |-> token, req |-> r.req, error |-> Undefined, response |-> Undefined, body |-> Undefined]
SettleEvent(cb, o, error, response, body) ==
    [ev |-> "settle", op |-> cb, arg |-> Undefined, kind |-> o.kind, value |-> o.value,
     tok0 |-> token, req |-> NoReq, error |-> error, response |-> response, body |-> body]

Remove(seq, i) == [j \in 1..(Len(seq) - 1) |-> IF j < i THEN seq[j] ELSE seq[j + 1]]

(***************************************************************************)
(* The default snapshot: every leaf is the String or Number constructor    *)
(***************************************************************************)
StringCtor == [t |-> "function", k |-> "String"]
NumberCtor == [t |-> "function", k |-> "Number"]
DefaultBattery == [bms |-> StringCtor, capacity |-> NumberCtor, grade |-> NumberCtor]
DefaultData ==
    [vehicle |-> [sn |-> StringCtor, type |-> StringCtor, name |-> StringCtor],
     position |-> [latitude |-> StringCtor, longitude |-> StringCtor],
     battery |-> [estimated_milage |-> NumberCtor,
                  batteries |-> <<DefaultBattery, DefaultBattery>>],
     current_speed |-> NumberCtor,
     total_mileage |-> NumberCtor,
     firmware_version |-> StringCtor,
     track |-> [id |-> StringCtor, start_time |-> StringCtor, end_time |-> StringCtor,
                distance |-> NumberCtor, average_speed |-> NumberCtor,
                riding_time |-> NumberCtor]]

EnvVals == {Undefined, Str("a")}
Envs == [account : EnvVals, password : EnvVals, countryCode : EnvVals]

\* no GET /api request has been made
NoReply == [sent |-> "none", key |-> Undefined, body |-> Undefined]

Init ==
    /\ token = ""
    /\ pending = <<>>
    /\ last = NoEvent
    /\ now = 0
    /\ alive = TRUE
    /\ netCalls = 0
    /\ env \in Envs
    /\ pc = "Start"
    /\ ready = FALSE
    /\ result = Undefined
    /\ data = DefaultData
    /\ vehicles = Arr(<<>>)
    /\ calls = <<>>
    /\ settled = 0
    /\ pipeErr = Undefined
    /\ reply = NoReply

\* the wall clock advances
Tick ==
    /\ alive
    /\ now < MaxClock
    /\ now' = now + 1
    /\ UNCHANGED <<token, pending, last, alive, netCalls, pipeVars>>

(***************************************************************************)
(* The client driven by an arbitrary caller                                *)
(***************************************************************************)
Call(op, options, r) ==
    /\ alive
    /\ r.kind = "request" => netCalls < MaxCalls /\ Len(pending) < MaxPending
    /\ token' = r.tok
    /\ pending' = IF r.kind = "request" THEN Append(pending, r.req.cb) ELSE pending
    /\ netCalls' = IF r.kind = "request" THEN netCalls + 1 ELSE netCalls
    /\ last' = CallEvent(op, options, r)
    /\ UNCHANGED <<now, alive, pipeVars>>

\* _error called directly: it returns the descriptor
Return(v) == [kind |-> "return", value |-> v, req |-> NoReq, tok |-> token]
ErrorInfos ==
    {Undefined, Null, Num(5), Str("boom"), Obj([code |-> Str("ECONNRESET")]),
     Obj([status |-> Num(1)])}
CallError ==
    \E errorInfo \in ErrorInfos, funcName \in {"f()", "g()"} :
        Call("_error", Obj([errorInfo |-> errorInfo, funcName |-> Str(funcName)]),
             Return(_error(errorInfo, funcName)))

CallCreateSessionToken ==
    \E options \in LoginOptions :
        Call("createSessionToken", options, createSessionToken(options))
CallSetSessionToken ==
    \E options \in TokenOptions :
        Call("setSessionToken", options, setSessionToken(options))
CallMakeRequest ==
    \E options \in MakeRequestOptions :
        Call("_makeRequest", options, _makeRequest(options))
CallGetVehicles == Call("getVehicles", Undefined, getVehicles)
CallGetBatteryInfo ==
    \E options \in SnOptions : Call("getBatteryInfo", options, getBatteryInfo(options))
CallGetBatteryHealth ==
    \E options \in SnOptions : Call("getBatteryHealth", options, getBatteryHealth(options))
CallGetMotorInfo ==
    \E options \in SnOptions : Call("getMotorInfo", options, getMotorInfo(options))
CallGetOverallTally ==
    \E options \in SnOptions : Call("getOverallTally", options, getOverallTally(options))
CallGetTracks ==
    \E options \in TracksOptions : Call("getTracks", options, getTracks(options))
CallGetTrackDetail ==
    \E options \in TrackDetailOptions :
        Call("getTrackDetail", options, getTrackDetail(options))

Settle_Retries(i, o, error, response, body) ==
    LET again == o.kind = "reject" /\ netCalls < MaxCalls IN
    /\ token' = o.tok
    /\ pending' = IF again THEN pending ELSE Remove(pending, i)
    /\ netCalls' = IF again THEN netCalls + 1 ELSE netCalls
    /\ alive' = (o.kind # "throw")
    /\ last' = SettleEvent(pending[i], o, error, response, body)
    /\ UNCHANGED <<now, pipeVars>>

\* request() runs the callback of a pending request
Settle(i, o, error, response, body) ==
    /\ token' = o.tok
    /\ pending' = Remove(pending, i)
    /\ alive' = (o.kind # "throw")
    /\ last' = SettleEvent(pending[i], o, error, response, body)
    /\ UNCHANGED <<now, netCalls, pipeVars>>

LoginResponse ==
    /\ alive
    /\ \E i \in 1..Len(pending), error \in Errors, response \in Responses,
          body \in LoginBodies :
        /\ pending[i] = "createSessionToken()"
        /\ Settle(i, createSessionTokenCallback(error, response, body),
                  error, response, body)

AppResponse ==
    /\ alive
    /\ \E i \in 1..Len(pending), error \in Errors, response \in Responses,
          body \in AppBodies :
        /\ pending[i] = "_makeRequest()"
        /\ Settle(i, _makeRequestCallback(error, response, body),
                  error, response, body)

ClientInit == Init /\ env = [account |-> Str("a"), password |-> Str("a"), countryCode |-> Str("a")]

ClientNext ==
    \/ Tick
    \/ CallError
    \/ CallCreateSessionToken
    \/ CallSetSessionToken
    \/ CallMakeRequest
    \/ CallGetVehicles
    \/ CallGetBatteryInfo
    \/ CallGetBatteryHealth
    \/ CallGetMotorInfo
    \/ CallGetOverallTally
    \/ CallGetTracks
    \/ CallGetTrackDetail
    \/ LoginResponse
    \/ AppResponse

ClientSpec == ClientInit /\ [][ClientNext]_vars

(***************************************************************************)
(* src/unnamed/part_000: the aggregation pipeline                          *)
(***************************************************************************)
NativeError(message) == [t |-> "object", k |-> "Error", message |-> Str(message)]

\* Number(v) and v / d for the values the vendor bodies of the model hold
NaN == [t |-> "number", k |-> "NaN"]
Digits == [s \in {"90", "95"} |-> IF s = "90" THEN 90 ELSE 95]
ToNumber(v) ==
    IF v.k = "number" THEN v
    ELSE IF v.k = "string" /\ v.s \in DOMAIN Digits THEN Num(Digits[v.s])
    ELSE IF v.k = "string" /\ v.s = "" THEN Num(0)
    ELSE IF v.k = "null" THEN Num(0)
    ELSE NaN
RECURSIVE Gcd(_, _)
Gcd(a, b) == IF b = 0 THEN a ELSE Gcd(b, a % b)
Div(v, d) ==
    LET n == ToNumber(v) IN
    IF n.k = "NaN" THEN NaN
    ELSE LET g == Gcd(n.num, n.den * d) IN
         [t |-> "number", k |-> "number",
          num |-> n.num \div (IF g = 0 THEN 1 ELSE g),
          den |-> IF g = 0 THEN 1 ELSE (n.den * d) \div g]

\* new Date(v).toString(): the rendering of the instant v, kept symbolic
DateString(v) == [t |-> "string", k |-> "date", of |-> v]

\* the vendor bodies a pipeline step may receive
Vehicle == Obj([sn |-> Str("SN1"), type |-> Str("NGT"), name |-> Str("Niu")])
VehicleBodies ==
    {Arr(<<>>), Arr(<<Vehicle>>), Arr(<<Obj([name |-> Str("Niu")])>>),
     Obj([status |-> Num(0), data |-> Arr(<<Vehicle>>)])}
PositionBodies == {Obj([status |-> Num(0)]), Obj([lat |-> Str("48.1"), lng |-> Str("11.5")])}
CompartmentA ==
    Obj([bmsId |-> Str("BMS-A"), batteryCharging |-> Num(80), gradeBattery |-> Str("95")])
CompartmentB ==
    Obj([bmsId |-> Str("BMS-B"), batteryCharging |-> Num(60), gradeBattery |-> Str("90")])
BatteryBodies ==
    {Obj([status |-> Num(0)])} \cup
    {Obj([batteries |-> Obj([compartmentA |-> a, compartmentB |-> b]),
          estimatedMileage |-> Num(40)]) :
        a \in {Undefined, Null, CompartmentA}, b \in {Undefined, CompartmentB}}
MotorBodies == {Obj([status |-> Num(0)]), Obj([nowSpeed |-> Num(25)])}
TallyBodies == {Obj([status |-> Num(0)]), Obj([totalMileage |-> Num(1234)])}
FirmwareBodies == {Obj([status |-> Num(0)]), Obj([version |-> Str("TRA01C09")])}
Track ==
    Obj([trackId |-> Str("T-1"), startTime |-> Num(1000), endTime |-> Num(2000),
         distance |-> Num(1500), avespeed |-> Num(45), ridingtime |-> Num(120)])
TrackBodies ==
    {Arr(<<>>), Arr(<<Track>>), Obj([status |-> Num(0)]),
     Obj([items |-> Arr(<<>>)]), Obj([items |-> Arr(<<Track>>)]),
     Obj([items |-> Arr(<<Obj([distance |-> Str("abc")])>>)])}

AppSteps ==
    {"ListVehicles", "FetchPosition", "FetchBatteryInfo", "FetchBatteryHealth",
     "FetchMotorInfo", "FetchOverallTally", "FetchFirmwareVersion", "FetchTracks"}
StepBodies(step) ==
    NoBody \cup {Obj([status |-> Num(1)])} \cup
    CASE step = "ListVehicles" -> VehicleBodies
      [] step = "FetchPosition" -> PositionBodies
      [] step \in {"FetchBatteryInfo", "FetchBatteryHealth"} -> BatteryBodies
      [] step = "FetchMotorInfo" -> MotorBodies
      [] step = "FetchOverallTally" -> TallyBodies
      [] step = "FetchFirmwareVersion" -> FirmwareBodies
      [] step = "FetchTracks" -> TrackBodies

\* a rejection reaches the catch handler, which logs it: the chain has ended
Catch(error) ==
    /\ pc' = "Failed"
    /\ pipeErr' = error
    /\ ready' = FALSE
    /\ result' = Undefined

\* a then-handler returns the promise of a client call: the chain waits for it
Await(op, options, r, next) ==
    /\ last' = CallEvent(op, options, r)
    /\ IF r.kind = "request"
         THEN /\ pending' = Append(pending, r.req.cb)
              /\ calls' = Append(calls, r.req)
              /\ netCalls' = netCalls + 1
              /\ pc' = next
              /\ ready' = FALSE
              /\ result' = Undefined
              /\ pipeErr' = pipeErr
         ELSE /\ Catch(r.value)
              /\ UNCHANGED <<pending, calls, netCalls>>
    /\ UNCHANGED <<token, now, alive, env, settled, reply>>

ThrowInHandler_Normalized ==
    /\ Catch(_error(Str("Malformed response."), "pipeline"))
    /\ UNCHANGED <<token, pending, last, now, alive, netCalls, env, calls, settled, reply>>

\* a then-handler throws: its promise is rejected with the exception
ThrowInHandler ==
    /\ Catch(TypeError)
    /\ UNCHANGED <<token, pending, last, now, alive, netCalls, env, calls, settled, reply>>

\* lines 62-67: the module body calls createSessionToken with the environment
Start ==
    /\ alive
    /\ pc = "Start"
    /\ LET options == Obj([account |-> env.account, password |-> env.password,
                           countryCode |-> env.countryCode])
       IN Await("createSessionToken", options, createSessionToken(options),
                "Authenticate")
    /\ UNCHANGED <<data, vehicles>>

\* request() runs the callback of the pipeline's pending request
Answer(o, error, response, body) ==
    /\ pending' = <<>>
    /\ last' = SettleEvent(pending[1], o, error, response, body)
    /\ token' = o.tok
    /\ alive' = (o.kind # "throw")
    /\ IF o.kind = "resolve"
         THEN /\ ready' = TRUE
              /\ result' = o.value
              /\ settled' = settled + 1
              /\ UNCHANGED <<pc, pipeErr>>
       ELSE IF o.kind = "reject"
         THEN Catch(o.value) /\ UNCHANGED settled
       ELSE UNCHANGED <<pc, ready, result, settled, pipeErr>>
    /\ UNCHANGED <<now, netCalls, env, data, vehicles, calls, reply>>

AuthenticateResponse ==
    /\ alive
    /\ pc = "Authenticate"
    /\ ~ready
    /\ \E error \in Errors, response \in Responses, body \in LoginBodies :
        Answer(createSessionTokenCallback(error, response, body), error, response, body)

StepResponse ==
    /\ alive
    /\ pc \in AppSteps
    /\ ~ready
    /\ \E error \in Errors, response \in Responses, body \in StepBodies(pc) :
        Answer(_makeRequestCallback(error, response, body), error, response, body)

\* the serial number every later call passes: vehicles.result[0].sn
Sn0 == Get(Index(Get(vehicles, "result"), 0), "sn")
SnOf(sn) == Obj([sn |-> sn])

\* what each then-handler writes into the snapshot
FoldVehicle(d, v) ==
    [d EXCEPT !.vehicle = [sn |-> Get(v, "sn"), type |-> Get(v, "type"),
                           name |-> Get(v, "name")]]
FoldPosition(d, body) ==
    [d EXCEPT !.position = [latitude |-> Get(body, "lat"), longitude |-> Get(body, "lng")]]
FoldBatteryInfo_WritesGrade(d, body) ==
    LET a == Get(Get(body, "batteries"), "compartmentA") IN
    IF TypeOf(a) = "object"
      THEN [d EXCEPT !.battery.batteries[1].bms = Get(a, "bmsId"),
                     !.battery.batteries[1].capacity = Get(a, "batteryCharging"),
                     !.battery.batteries[1].grade = ToNumber(Get(a, "gradeBattery"))]
      ELSE d

FoldBatteryInfo(d, body) ==
    LET batteries == Get(body, "batteries")
        a == Get(batteries, "compartmentA")
        b == Get(batteries, "compartmentB")
        d1 == IF TypeOf(a) = "object"
                THEN [d EXCEPT !.battery.batteries[1].bms = Get(a, "bmsId"),
                               !.battery.batteries[1].capacity = Get(a, "batteryCharging")]
                ELSE d
        d2 == IF TypeOf(b) = "object"
                THEN [d1 EXCEPT !.battery.batteries[2].bms = Get(a, "bmsId"),
                                !.battery.batteries[2].capacity = Get(a, "batteryCharging")]
                ELSE d1
    IN [d2 EXCEPT !.battery.estimated_milage = Get(body, "estimatedMileage")]
FoldBatteryHealth_FillsBoth(d, body) ==
    LET a == Get(Get(body, "batteries"), "compartmentA") IN
    IF TypeOf(a) = "object"
      THEN [d EXCEPT !.battery.batteries[1].grade = ToNumber(Get(a, "gradeBattery")),
                     !.battery.batteries[2].grade = ToNumber(Get(a, "gradeBattery"))]
      ELSE d

FoldBatteryHealth(d, body) ==
    LET batteries == Get(body, "batteries")
        a == Get(batteries, "compartmentA")
        b == Get(batteries, "compartmentB")
        d1 == IF TypeOf(a) = "object"
                THEN [d EXCEPT !.battery.batteries[1].grade = ToNumber(Get(a, "gradeBattery"))]
                ELSE d
    IN IF TypeOf(b) = "object"
         THEN [d1 EXCEPT !.battery.batteries[2].grade = ToNumber(Get(a, "gradeBattery"))]
         ELSE d1
\* the battery handlers throw when batteries is missing, or when a compartment
\* that is read (A, also in place of B) is null or missing
BatteryThrows(body) ==
    LET batteries == Get(body, "batteries") IN
    \/ Throws(batteries)
    \/ /\ \/ TypeOf(Get(batteries, "compartmentA")) = "object"
          \/ TypeOf(Get(batteries, "compartmentB")) = "object"
       /\ Throws(Get(batteries, "compartmentA"))
FoldTally(d, body) == [d EXCEPT !.total_mileage = Get(body, "totalMileage")]
FoldFirmware(d, body) == [d EXCEPT !.firmware_version = Get(body, "version")]
FoldTrack_NoConversion(d, track) ==
    [d EXCEPT !.track = [id |-> Get(track, "trackId"),
                         start_time |-> DateString(Get(track, "startTime")),
                         end_time |-> DateString(Get(track, "endTime")),
                         distance |-> Get(track, "distance"),
                         average_speed |-> Get(track, "avespeed"),
                         riding_time |-> Get(track, "ridingtime")]]

FoldTrack(d, track) ==
    [d EXCEPT !.track = [id |-> Get(track, "trackId"),
                         start_time |-> DateString(Get(track, "startTime")),
                         end_time |-> DateString(Get(track, "endTime")),
                         distance |-> Div(Get(track, "distance"), 1000),
                         average_speed |-> Get(track, "avespeed"),
                         riding_time |-> Div(Get(track, "ridingtime"), 60)]]

Handler(step) ==
    /\ alive
    /\ pc = step
    /\ ready

\* lines 68-72
ThenAuthenticate ==
    /\ Handler("Authenticate")
    /\ Await("getVehicles", Undefined, getVehicles, "ListVehicles")
    /\ UNCHANGED <<data, vehicles>>

\* lines 73-120, with the handler of lines 88-100 that the same job queue runs next
ThenListVehicles ==
    /\ Handler("ListVehicles")
    /\ vehicles' = result
    /\ IF Length(result) = Num(0)
         THEN /\ Catch(NativeError("Aborted."))
              /\ UNCHANGED <<token, pending, last, now, alive, netCalls, env, calls,
                             settled, data, reply>>
       ELSE LET v == Index(Get(result, "result"), 0) IN
            IF Throws(v)
              THEN ThrowInHandler /\ UNCHANGED data
              ELSE /\ data' = FoldVehicle(data, v)
                   /\ Await("getVehiclePos", SnOf(Get(v, "sn")),
                            getVehiclePos(SnOf(Get(v, "sn"))), "FetchPosition")

ThenFetchPosition_Eager ==
    /\ alive
    /\ pc = "FetchPosition"
    /\ data' = FoldPosition(data, Get(result, "result"))
    /\ Await("getBatteryInfo", SnOf(Sn0), getBatteryInfo(SnOf(Sn0)), "FetchBatteryInfo")
    /\ UNCHANGED vehicles

\* lines 101-117
ThenFetchPosition ==
    /\ Handler("FetchPosition")
    /\ data' = FoldPosition(data, Get(result, "result"))
    /\ Await("getBatteryInfo", SnOf(Sn0), getBatteryInfo(SnOf(Sn0)), "FetchBatteryInfo")
    /\ UNCHANGED vehicles

\* lines 121-141
ThenFetchBatteryInfo ==
    /\ Handler("FetchBatteryInfo")
    /\ IF BatteryThrows(Get(result, "result"))
         THEN ThrowInHandler /\ UNCHANGED data
         ELSE /\ data' = FoldBatteryInfo(data, Get(result, "result"))
              /\ Await("getBatteryHealth", SnOf(Sn0), getBatteryHealth(SnOf(Sn0)),
                       "FetchBatteryHealth")
    /\ UNCHANGED vehicles

\* lines 142-160
ThenFetchBatteryHealth ==
    /\ Handler("FetchBatteryHealth")
    /\ IF BatteryThrows(Get(result, "result"))
         THEN ThrowInHandler /\ UNCHANGED data
         ELSE /\ data' = FoldBatteryHealth(data, Get(result, "result"))
              /\ Await("getMotorInfo", SnOf(Sn0), getMotorInfo(SnOf(Sn0)),
                       "FetchMotorInfo")
    /\ UNCHANGED vehicles

ThenFetchMotorInfo_SkipsTally ==
    /\ Handler("FetchMotorInfo")
    /\ Await("getFirmwareVersion", SnOf(Sn0), getFirmwareVersion(SnOf(Sn0)),
             "FetchFirmwareVersion")
    /\ UNCHANGED <<data, vehicles>>

\* lines 161-165
ThenFetchMotorInfo ==
    /\ Handler("FetchMotorInfo")
    /\ Await("getOverallTally", SnOf(Sn0), getOverallTally(SnOf(Sn0)),
             "FetchOverallTally")
    /\ UNCHANGED <<data, vehicles>>

\* lines 166-171
ThenFetchOverallTally ==
    /\ Handler("FetchOverallTally")
    /\ data' = FoldTally(data, Get(result, "result"))
    /\ Await("getFirmwareVersion", SnOf(Sn0), getFirmwareVersion(SnOf(Sn0)),
             "FetchFirmwareVersion")
    /\ UNCHANGED vehicles

\* lines 172-179
ThenFetchFirmwareVersion ==
    /\ Handler("FetchFirmwareVersion")
    /\ data' = FoldFirmware(data, Get(result, "result"))
    /\ LET options == Obj([sn |-> Sn0, index |-> Num(0), pageSize |-> Num(1)])
       IN Await("getTracks", options, getTracks(options), "FetchTracks")
    /\ UNCHANGED vehicles

\* lines 180-195
ThenFetchTracks ==
    /\ Handler("FetchTracks")
    /\ LET body == Get(result, "result")
           items == Get(body, "items")
       IN IF Length(body) = Num(0)
            THEN /\ pc' = "Done"
                 /\ UNCHANGED <<data, pipeErr>>
          ELSE IF Throws(items) \/ Throws(Index(items, 0))
            THEN /\ pc' = "Failed"
                 /\ pipeErr' = TypeError
                 /\ UNCHANGED data
          ELSE /\ pc' = "Done"
               /\ data' = FoldTrack(data, Index(items, 0))
               /\ UNCHANGED pipeErr
    /\ ready' = FALSE
    /\ result' = Undefined
    /\ UNCHANGED <<token, pending, last, now, alive, netCalls, env, vehicles, calls,
                   settled, reply>>

(***************************************************************************)
(* src/unnamed/part_000: the local endpoint GET /api                       *)
(***************************************************************************)
\* line 13: the hex SHA-256 digest of process.env.API_KEY, kept symbolic
API_KEY == "i-am-a-special-key-string"
Sha256Hex(s) == "sha256:" \o s
key == Sha256Hex(API_KEY)

\* the key a caller puts into the body of its request
ApiRequests == {[key |-> k] : k \in {Undefined, Str(API_KEY), Str(key)}}

ReqBody_Parsed(request) == Obj([key |-> request.key])

\* req.body as the handler sees it: no body-parsing middleware is registered
\* on app, so the body of the request is never parsed
ReqBody(request) == Undefined

\* key == v for the string key
LooseEq(a, v) ==
    IF v.k = "string" THEN v.s = a
    ELSE IF v.k = "array" /\ Len(v.elems) = 1 THEN v.elems[1] = Str(a)
    ELSE FALSE

\* res.send(data): the JSON text of the snapshot; JSON.stringify leaves out
\* members whose value is a function or undefined and writes NaN as null
Absent == [t |-> "absent", k |-> "absent"]
JsonLeaf(v) ==
    IF v.t \in {"function", "undefined"} THEN Absent
    ELSE IF v.k = "NaN" THEN Null
    ELSE v
JsonObj(o) == [f \in DOMAIN o |-> JsonLeaf(o[f])]
Json(d) ==
    [vehicle |-> JsonObj(d.vehicle),
     position |-> JsonObj(d.position),
     battery |-> [estimated_milage |-> JsonLeaf(d.battery.estimated_milage),
                  batteries |-> [i \in 1..2 |-> JsonObj(d.battery.batteries[i])]],
     current_speed |-> JsonLeaf(d.current_speed),
     total_mileage |-> JsonLeaf(d.total_mileage),
     firmware_version |-> JsonLeaf(d.firmware_version),
     track |-> JsonObj(d.track)]

\* lines 223-225: the handler throws on req.body.key when req.body is
\* undefined (the router answers 500), sends the snapshot when the keys are
\* equal and otherwise returns without answering
ApiHandler_SendsAlways(req, d) == [sent |-> "snapshot", body |-> Json(d)]

ApiHandler(req, d) ==
    IF Throws(req.body) THEN [sent |-> "error", body |-> Num(500)]
    ELSE IF LooseEq(key, Get(req.body, "key"))
      THEN [sent |-> "snapshot", body |-> Json(d)]
    ELSE [sent |-> "nothing", body |-> Undefined]

ApiGet ==
    /\ alive
    /\ \E request \in ApiRequests :
        reply' = [key |-> request.key] @@ ApiHandler([body |-> ReqBody(request)], data)
    /\ UNCHANGED <<token, pending, last, now, alive, netCalls, env, pc, ready, result,
                   data, vehicles, calls, settled, pipeErr>>

Next ==
    \/ Tick
    \/ Start
    \/ AuthenticateResponse
    \/ StepResponse
    \/ ThenAuthenticate
    \/ ThenListVehicles
    \/ ThenFetchPosition
    \/ ThenFetchBatteryInfo
    \/ ThenFetchBatteryHealth
    \/ ThenFetchMotorInfo
    \/ ThenFetchOverallTally
    \/ ThenFetchFirmwareVersion
    \/ ThenFetchTracks
    \/ ApiGet

Spec == Init /\ [][Next]_vars

\* Spec with its scheduling: request() eventually runs the callback of a
\* request it was given, and the job queue eventually runs a handler that is
\* ready to run
LiveSpec ==
    /\ Spec
    /\ WF_vars(Start)
    /\ WF_vars(AuthenticateResponse)
    /\ WF_vars(StepResponse)
    /\ WF_vars(ThenAuthenticate)
    /\ WF_vars(ThenListVehicles)
    /\ WF_vars(ThenFetchPosition)
    /\ WF_vars(ThenFetchBatteryInfo)
    /\ WF_vars(ThenFetchBatteryHealth)
    /\ WF_vars(ThenFetchMotorInfo)
    /\ WF_vars(ThenFetchOverallTally)
    /\ WF_vars(ThenFetchFirmwareVersion)
    /\ WF_vars(ThenFetchTracks)

(***************************************************************************)
(* Claims about the aggregation pipeline (specification Spec)              *)
(***************************************************************************)
ExpectedUrls(sn) ==
    <<AccountBaseUrl \o "/appv2/login",
      AppApiBaseUrl \o "/motoinfo/list",
      AppApiBaseUrl \o "/motoinfo/currentpos",
      AppApiBaseUrl \o "/v3/motor_data/battery_info?sn=" \o sn,
      AppApiBaseUrl \o "/v3/motor_data/battery_info/health?sn=" \o sn,
      AppApiBaseUrl \o "/v3/motor_data/index_info?sn=" \o sn,
      AppApiBaseUrl \o "/motoinfo/overallTally",
      AppApiBaseUrl \o "/motorota/getfirmwareversion",
      AppApiBaseUrl \o "/v3/motor_data/track">>

\* C1: the requests the pipeline has issued are always a prefix of
\* authenticate, list vehicles, position, battery info, battery health, motor
\* info, overall tally, firmware version, tracks; the k-th request is issued
\* only when the k-1 requests before it were answered with success; position and
\* every later call carry the serial number of vehicle 0 and the tracks call
\* carries index 0 and page size 1.
C1_CallsInOrder ==
    /\ Len(calls) <= 9
    /\ Len(calls) >= 1 => settled >= Len(calls) - 1
    /\ Len(pending) <= 1
    /\ \A i \in 1..Len(calls) :
        /\ calls[i].url = ExpectedUrls(IF i >= 3 THEN Sn0.s ELSE "")[i]
        /\ i \in {3, 7, 8} => calls[i].form = Obj([sn |-> Sn0])
        /\ i = 9 => calls[i].form =
                        Obj([sn |-> Sn0, index |-> Num(0), pagesize |-> Num(1)])

C1_Witness == pc = "Done" /\ Len(calls) = 9 /\ settled = 9

\* C2: a pipeline step that does not succeed (its request is answered and the
\* step's promise is not resolved) puts the pipeline in Failed with the step's
\* error, and from Failed nothing changes: no step runs and no request is issued.
C2_FailureEndsInFailed ==
    [][/\ (pending # <<>> /\ pending' = <<>> /\ last'.kind # "resolve")
            => (pc' = "Failed" /\ pipeErr' = last'.value)
       /\ pc = "Failed"
            => (pc' = "Failed" /\ pipeErr' = pipeErr /\ calls' = calls
                /\ netCalls' = netCalls /\ pending' = pending)]_vars

WrittenBy(n, d) ==
    /\ n < 2 => d.vehicle = DefaultData.vehicle
    /\ n < 3 => d.position = DefaultData.position
    /\ n < 4 => /\ d.battery.estimated_milage = NumberCtor
                /\ \A i \in 1..2 : /\ d.battery.batteries[i].bms = StringCtor
                                   /\ d.battery.batteries[i].capacity = NumberCtor
    /\ n < 5 => \A i \in 1..2 : d.battery.batteries[i].grade = NumberCtor
    /\ n < 7 => d.total_mileage = NumberCtor
    /\ n < 8 => d.firmware_version = StringCtor
    /\ n < 9 => d.track = DefaultData.track
    /\ d.current_speed = NumberCtor
IsCall(e, op) == e.ev = "call" /\ e.op = op
IsSettle(e, cb) == e.ev = "settle" /\ e.op = cb
Message(e) == Get(Get(e.value, "error"), "message")
IsDescriptor(v, funcName) ==
    /\ v.k = "object"
    /\ Get(Get(v, "debug"), "funcName") = Str(funcName)
    /\ TypeOf(Get(Get(v, "debug"), "date")) = "number"
    /\ TypeOf(Get(v, "error")) = "object"
StatusCode(e) == Get(e.response, "statusCode")
CredFields == {"account", "password", "countryCode"}

\* C4: the promise of _makeRequest is resolved (with the body) when there is no
\* transport error, the status code is the number 200, a body is present and it
\* carries no numeric non-zero status; in every other case it is rejected.
ChecksPass(error, response, body) ==
    /\ error = Null
    /\ TypeOf(response) = "object"
    /\ Get(response, "statusCode") = Num(200)
    /\ TypeOf(body) = "object" /\ body # Null
    /\ ~(TypeOf(Get(body, "status")) = "number" /\ Get(body, "status") # Num(0))
C4_SuccessIffChecksPass ==
    IsSettle(last, "_makeRequest()") =>
        IF ChecksPass(last.error, last.response, last.body)
          THEN last.kind = "resolve" /\ last.value = Result(last.body)
          ELSE last.kind = "reject"

\* C5: _makeRequest examines transport error, status presence, status value and
\* body in this order: a transport error is the cause whatever response and body
\* hold, a missing response or status code and a status other than 200 are
\* reported whatever the body holds, and the body is the cause only when there
\* is no transport error and the status code is 200.
C5_LayerOrder ==
    IsSettle(last, "_makeRequest()") =>
        /\ last.error # Null =>
            last.kind = "reject" /\ Get(last.value, "error") = last.error
        /\ (last.error = Null /\ TypeOf(last.response) # "object") =>
            last.kind = "reject" /\ Message(last) = Str("Unknown error.")
        /\ (last.error = Null /\ TypeOf(last.response) = "object"
                /\ TypeOf(StatusCode(last)) # "number") =>
            last.kind = "reject" /\ Message(last) = Str("Status code is missing.")
        /\ (last.error = Null /\ TypeOf(StatusCode(last)) = "number"
                /\ StatusCode(last) # Num(200)) =>
            last.kind = "reject" /\ Message(last) = Str("Bad request.")
        /\ (last.kind = "reject" /\ Get(last.value, "error") = last.body) =>
            last.error = Null /\ StatusCode(last) = Num(200)

C5_Witness ==
    /\ IsSettle(last, "_makeRequest()")
    /\ last.error # Null
    /\ StatusCode(last) = Num(200)
    /\ last.body = Obj([status |-> Num(1)])
    /\ last.kind = "reject"

\* C6: createSessionToken without options, or with account, password or
\* countryCode missing, is rejected with an error descriptor of
\* createSessionToken() and request() is not invoked.
MissingCred(o) ==
    \/ o = Undefined
    \/ o.k = "object" /\ \E f \in CredFields : Get(o, f) = Undefined
C6_MissingCredentialRejected ==
    [][(IsCall(last', "createSessionToken") /\ MissingCred(last'.arg)) =>
        /\ last'.kind = "reject"
        /\ IsDescriptor(last'.value, "createSessionToken()")
        /\ TypeOf(Message(last')) = "string"
        /\ netCalls' = netCalls
        /\ pending' = pending]_vars

C6_Witness ==
    /\ IsCall(last, "createSessionToken")
    /\ last.arg = Obj([account |-> Str("a"), password |-> Undefined,
                       countryCode |-> Str("a")])
    /\ last.kind = "reject"
    /\ Message(last) = Str("Password is missing.")

\* C7 as stated: createSessionToken with an empty account, password or
\* countryCode is rejected and request() is not invoked.
EmptyCred(o) == o.k = "object" /\ \E f \in CredFields : Get(o, f) = Str("")
C7_EmptyCredentialRejected ==
    [][(IsCall(last', "createSessionToken") /\ EmptyCred(last'.arg)) =>
        (last'.kind = "reject" /\ netCalls' = netCalls)]_vars

\* C7 amended: createSessionToken requires the three inputs to be strings: with
\* one of them missing or not a string it is rejected with an error descriptor
\* and request() is not invoked; with three strings, empty ones included, the
\* login request is issued with them.
AllStrings(o) == \A f \in CredFields : TypeOf(Get(o, f)) = "string"
C7_StringCredentialsRequired ==
    [][(IsCall(last', "createSessionToken") /\ last'.arg.k = "object") =>
        IF AllStrings(last'.arg)
          THEN /\ last'.kind = "request"
               /\ last'.req.url = AccountBaseUrl \o "/appv2/login"
               /\ last'.req.form = last'.arg
          ELSE /\ last'.kind = "reject"
               /\ IsDescriptor(last'.value, "createSessionToken()")
               /\ netCalls' = netCalls
               /\ pending' = pending]_vars

C7_Witness ==
    /\ IsCall(last, "createSessionToken")
    /\ last.arg = Obj([account |-> Str(""), password |-> Str(""), countryCode |-> Str("")])
    /\ last.kind = "request"
    /\ netCalls = 1

\* C8 as stated: _makeRequest called while the token is empty is rejected and
\* request() is not invoked.
C8_MakeRequestChecksToken ==
    [][(IsCall(last', "_makeRequest") /\ last'.tok0 = "") =>
        (last'.kind = "reject" /\ netCalls' = netCalls)]_vars

\* C8 amended: every endpoint accessor called while the token is empty is
\* rejected with "No valid token available." and request() is not invoked;
\* _makeRequest itself does not look at the token: called with a path while the
\* token is empty it issues the request with the empty token.
Accessors ==
    {"getVehicles", "getBatteryInfo", "getBatteryHealth", "getMotorInfo",
     "getOverallTally", "getTracks", "getTrackDetail"}
C8_AccessorsCheckToken ==
    [][/\ (last'.ev = "call" /\ last'.op \in Accessors /\ last'.tok0 = "") =>
            /\ last'.kind = "reject"
            /\ Message(last') = Str("No valid token available.")
            /\ netCalls' = netCalls
            /\ pending' = pending
       /\ (IsCall(last', "_makeRequest") /\ last'.tok0 = ""
                /\ TypeOf(Get(last'.arg, "path")) = "string") =>
            /\ last'.kind = "request"
            /\ last'.req.token = Str("")]_vars

C8_Witness ==
    /\ IsCall(last, "getBatteryInfo")
    /\ last.tok0 = ""
    /\ last.arg = Obj([sn |-> Str("SN1")])
    /\ last.kind = "reject"
    /\ netCalls = 0

\* C9 as stated: setSessionToken stores the token and succeeds exactly when the
\* token is a non-empty string; otherwise it fails and the token is unchanged.
C9_NonEmptyTokenOnly ==
    [][IsCall(last', "setSessionToken") =>
        IF TypeOf(Get(last'.arg, "token")) = "string" /\ Get(last'.arg, "token") # Str("")
          THEN last'.kind = "resolve" /\ token' = Get(last'.arg, "token").s
          ELSE last'.kind # "resolve" /\ token' = token]_vars

\* C9 amended: setSessionToken stores the token and succeeds exactly when the
\* token is a string, the empty string included; with a missing or non-string
\* token it fails and the stored token is unchanged.
C9_StringTokenOnly ==
    [][IsCall(last', "setSessionToken") =>
        IF TypeOf(Get(last'.arg, "token")) = "string"
          THEN last'.kind = "resolve" /\ token' = Get(last'.arg, "token").s
          ELSE last'.kind # "resolve" /\ token' = token]_vars

C9_Witness ==
    /\ IsCall(last, "setSessionToken")
    /\ last.arg = Obj([token |-> Str("")])
    /\ last.kind = "resolve"
    /\ last.tok0 = "T1"
    /\ token = ""

\* C10: the token changes only in the callback of createSessionToken that
\* resolves the promise (to the token of the response) and in a setSessionToken
\* that succeeds; a failing createSessionToken, _makeRequest and every accessor
\* leave it as it is.
C10_TokenChangesOnlyOnSuccess ==
    [][token' # token =>
        \/ /\ IsSettle(last', "createSessionToken()")
           /\ last'.kind = "resolve"
           /\ Str(token') = Get(Get(last'.body, "data"), "token")
        \/ /\ IsCall(last', "setSessionToken")
           /\ last'.kind = "resolve"]_vars

C10_Witness ==
    /\ IsSettle(last, "createSessionToken()")
    /\ last.kind = "reject"
    /\ Get(Get(last.body, "data"), "token") = Str("")
    /\ Message(last) = Str("Token is empty in response.")
    /\ token = "T1"

\* C11: getBatteryInfo, getBatteryHealth, getMotorInfo, getOverallTally,
\* getTracks and getTrackDetail, called with a session token but without options,
\* or with options in which a required field is missing or of the wrong type (sn,
\* trackId, trackDate not a string; index, pageSize not a number), are rejected
\* with an error descriptor carrying a message and request() is not invoked;
\* with every required field of the right type the request is issued.
Required(op) ==
    {<<"sn", "string">>} \cup
    (IF op = "getTracks" THEN {<<"index", "number">>, <<"pageSize", "number">>}
     ELSE IF op = "getTrackDetail"
       THEN {<<"trackId", "string">>, <<"trackDate", "string">>}
     ELSE {})
Invalid(op, o) ==
    \/ o = Undefined
    \/ o.k = "object" /\ \E r \in Required(op) : TypeOf(Get(o, r[1])) # r[2]
C11_InvalidParametersRejected ==
    [][(last'.ev = "call" /\ last'.op \in Accessors \ {"getVehicles"}
            /\ last'.tok0 # "" /\ last'.arg # Null) =>
        IF Invalid(last'.op, last'.arg)
          THEN /\ last'.kind = "reject"
               /\ TypeOf(Get(Get(last'.value, "debug"), "funcName")) = "string"
               /\ TypeOf(Message(last')) = "string"
               /\ Message(last') # Str("No valid token available.")
               /\ netCalls' = netCalls
               /\ pending' = pending
          ELSE last'.kind = "request"]_vars

C11_Witness ==
    /\ IsCall(last, "getTracks")
    /\ last.tok0 = "T1"
    /\ last.arg = Obj([sn |-> Str("SN1"), index |-> Num(0), pageSize |-> Str("1")])
    /\ last.kind = "reject"
    /\ Message(last) = Str("Page size is missing.")
    /\ netCalls = 0

(***************************************************************************)
(* Claims about the folds of the pipeline (specification Spec)             *)
(***************************************************************************)
\* the then-handler of a step runs in this step, on the body in result.result
Handled(step) == pc = step /\ ready /\ ~ready'
Received == Get(result, "result")
ReceivedA == Get(Get(Received, "batteries"), "compartmentA")
ReceivedB == Get(Get(Received, "batteries"), "compartmentB")
IsObject(v) == TypeOf(v) = "object" /\ v # Null

\* C12: once the vehicle list has arrived with zero entries the pipeline is in
\* Failed with the no-vehicles error (the message "No vehicles found", or the
\* Error "Aborted." the code raises next to that log line), only the login and
\* the list request were issued and the snapshot holds its initial values.
NoVehiclesError(e) ==
    \/ e = NativeError("Aborted.")
    \/ Get(e, "message") = Str("No vehicles found")
    \/ Get(Get(e, "error"), "message") = Str("No vehicles found")
C12_EmptyListFailsNoVehicles ==
    Get(vehicles, "result") = Arr(<<>>) =>
        /\ pc = "Failed"
        /\ NoVehiclesError(pipeErr)
        /\ Len(calls) = 2
        /\ data = DefaultData

\* C13: when the battery-info (battery-health) body holds compartment B, the
\* handler writes B's own bmsId and batteryCharging (numeric gradeBattery) into
\* slot 1 of the battery list, whether compartment A is there or left out.
C13_SlotOneHoldsCompartmentB ==
    [][/\ (Handled("FetchBatteryInfo") /\ IsObject(ReceivedB) /\ ReceivedA # Null) =>
            /\ data'.battery.batteries[2].bms = Get(ReceivedB, "bmsId")
            /\ data'.battery.batteries[2].capacity = Get(ReceivedB, "batteryCharging")
       /\ (Handled("FetchBatteryHealth") /\ IsObject(ReceivedB) /\ ReceivedA # Null) =>
            data'.battery.batteries[2].grade = ToNumber(Get(ReceivedB, "gradeBattery"))]_vars

\* C14: when the battery-info (battery-health) body holds compartment A only,
\* the handler writes A's bmsId and batteryCharging (numeric gradeBattery) into
\* slot 0 and leaves slot 1 as it is; no other step touches the battery list,
\* which holds its initial values until the battery-info handler runs.
OnlyA == IsObject(ReceivedA) /\ TypeOf(ReceivedB) # "object"
C14_OnlyCompartmentA ==
    /\ [][(Handled("FetchBatteryInfo") /\ OnlyA) =>
            /\ data'.battery.batteries[1] =
                    [bms |-> Get(ReceivedA, "bmsId"),
                     capacity |-> Get(ReceivedA, "batteryCharging"),
                     grade |-> data.battery.batteries[1].grade]
            /\ data'.battery.batteries[2] = data.battery.batteries[2]]_vars
    /\ [][(Handled("FetchBatteryHealth") /\ OnlyA) =>
            /\ data'.battery.batteries[1] =
                    [data.battery.batteries[1] EXCEPT
                        !.grade = ToNumber(Get(ReceivedA, "gradeBattery"))]
            /\ data'.battery.batteries[2] = data.battery.batteries[2]]_vars
    /\ [][~(Handled("FetchBatteryInfo") \/ Handled("FetchBatteryHealth")) =>
            data'.battery.batteries = data.battery.batteries]_vars
    /\ [](pc \in {"Start", "Authenticate", "ListVehicles", "FetchPosition",
                  "FetchBatteryInfo"} =>
            data.battery.batteries = <<DefaultBattery, DefaultBattery>>)

C14_Witness ==
    /\ pc = "Done"
    /\ data.battery.batteries[1] =
            [bms |-> Str("BMS-A"), capacity |-> Num(80), grade |-> Num(95)]
    /\ data.battery.batteries[2] = DefaultBattery

\* C15: when the tracks body holds zero items the tracks handler ends the
\* pipeline in Done without an error and leaves the track fields of the
\* snapshot at their initial values.
ZeroItems(body) == body = Arr(<<>>) \/ Get(body, "items") = Arr(<<>>)
C15_NoTracksIsDone ==
    [][(Handled("FetchTracks") /\ ZeroItems(Received)) =>
        /\ pc' = "Done"
        /\ pipeErr' = Undefined
        /\ data'.track = DefaultData.track]_vars

\* C16: when the tracks body holds at least one item with a numeric distance
\* and ridingtime, the handler ends the pipeline in Done with the track taken
\* from item 0: id and average speed copied, distance = item distance / 1000 and
\* riding time = item ridingtime / 60 (1500 and 120 give 3/2 and 2).
Item0 == Index(Get(Received, "items"), 0)
IsNumber(v) == v.k = "number"
Quotient(q, v, d) == IsNumber(q) /\ q.den > 0 /\ q.num * v.den * d = v.num * q.den
WellFormedBatteries ==
    /\ \A c \in {ReceivedA, ReceivedB} : c = Undefined \/ IsObject(c)
    /\ \E c \in {ReceivedA, ReceivedB} : IsObject(c)
Compartments == <<ReceivedA, ReceivedB>>
C17_WellFormedRunMapsEveryField ==
    [][/\ (Handled("ListVehicles") /\ IsObject(Index(Received, 0))
                /\ TypeOf(Get(Index(Received, 0), "sn")) = "string") =>
            /\ pc' = "FetchPosition"
            /\ data'.vehicle = [sn |-> Get(Index(Received, 0), "sn"),
                                type |-> Get(Index(Received, 0), "type"),
                                name |-> Get(Index(Received, 0), "name")]
       /\ (Handled("FetchPosition") /\ TypeOf(Get(Received, "lat")) = "string") =>
            /\ pc' = "FetchBatteryInfo"
            /\ data'.position = [latitude |-> Get(Received, "lat"),
                                 longitude |-> Get(Received, "lng")]
       /\ (Handled("FetchBatteryInfo") /\ WellFormedBatteries) =>
            /\ pc' = "FetchBatteryHealth"
            /\ data'.battery.estimated_milage = Get(Received, "estimatedMileage")
            /\ \A i \in 1..2 : IsObject(Compartments[i]) =>
                /\ data'.battery.batteries[i].bms = Get(Compartments[i], "bmsId")
                /\ data'.battery.batteries[i].capacity =
                        Get(Compartments[i], "batteryCharging")
       /\ (Handled("FetchBatteryHealth") /\ WellFormedBatteries) =>
            /\ pc' = "FetchMotorInfo"
            /\ \A i \in 1..2 : IsObject(Compartments[i]) =>
                data'.battery.batteries[i].grade =
                    ToNumber(Get(Compartments[i], "gradeBattery"))
       /\ (Handled("FetchMotorInfo") /\ IsObject(Received)) =>
            pc' = "FetchOverallTally" /\ data' = data
       /\ (Handled("FetchOverallTally") /\ IsNumber(Get(Received, "totalMileage"))) =>
            /\ pc' = "FetchFirmwareVersion"
            /\ data'.total_mileage = Get(Received, "totalMileage")
       /\ (Handled("FetchFirmwareVersion")
                /\ TypeOf(Get(Received, "version")) = "string") =>
            /\ pc' = "FetchTracks"
            /\ data'.firmware_version = Get(Received, "version")
       /\ (Handled("FetchTracks") /\ Item0 = Track) =>
            /\ pc' = "Done"
            /\ data'.track.id = Get(Item0, "trackId")
            /\ data'.track.start_time = DateString(Get(Item0, "startTime"))
            /\ data'.track.end_time = DateString(Get(Item0, "endTime"))
            /\ data'.track.average_speed = Get(Item0, "avespeed")
            /\ Quotient(data'.track.distance, Get(Item0, "distance"), 1000)
            /\ Quotient(data'.track.riding_time, Get(Item0, "ridingtime"), 60)]_vars

\* C18 as stated: every failure that reaches the failure handler is an error
\* descriptor of _error (origin function, time, cause).
IsErrorDescriptor(v) ==
    /\ IsObject(v)
    /\ TypeOf(Get(Get(v, "debug"), "funcName")) = "string"
    /\ TypeOf(Get(Get(v, "debug"), "date")) = "number"
    /\ TypeOf(Get(v, "error")) = "object"
C18_EveryFailureIsDescriptor == pc = "Failed" => IsErrorDescriptor(pipeErr)

\* C18 amended: a failure that reaches the failure handler is the error
\* descriptor of _error when a client call was rejected (validation, transport,
\* HTTP status, vendor status), and a native exception object when a handler
\* of the pipeline failed on the body it received (empty vehicle list,
\* malformed response shape); both arrive as the rejection of the chain.
C18_DescriptorOrNativeError ==
    pc = "Failed" =>
        IF last.kind = "reject"
          THEN pipeErr = last.value /\ IsErrorDescriptor(pipeErr)
          ELSE /\ last.kind = "resolve"
               /\ pipeErr \in {TypeError, NativeError("Aborted.")}
               /\ ~IsErrorDescriptor(pipeErr)

C18_Witness ==
    /\ pc = "Failed"
    /\ pipeErr = TypeError
    /\ last.kind = "resolve"
    /\ Get(vehicles, "result") = Arr(<<>>)

C20_OriginIsOperationName ==
    (last.ev = "call" /\ last.kind = "reject"
        /\ last.op \in {"createSessionToken", "setSessionToken"} \cup Accessors) =>
        Get(Get(last.value, "debug"), "funcName") = Str(last.op \o "()")

(***************************************************************************)
(* Claims about the scheduling of the pipeline                             *)
(***************************************************************************)
\* C21: the pipeline never has more than one request in flight, and it issues
\* a request only when no request is in flight and every request issued before
\* was answered with success.
C21_OneCallInFlight ==
    /\ [](Len(pending) <= 1)
    /\ [][Len(calls') > Len(calls) =>
            /\ pending = <<>>
            /\ Len(calls') = Len(calls) + 1
            /\ Len(pending') = 1
            /\ settled = Len(calls)]_vars

C21_Witness ==
    /\ Len(calls) = 5
    /\ Len(pending) = 1
    /\ settled = 4
    /\ pc = "FetchBatteryHealth"

\* C22: when every request is eventually answered, the pipeline eventually is
\* in Done or Failed and stays there.
C22_EventuallyTerminal == <>[](pc \in {"Done", "Failed"})

(***************************************************************************)
(* Further claims about the client (specification ClientSpec)              *)
(***************************************************************************)
\* C23: a step issues at most one request; an accessor call issues one request
\* when the token is set and its parameters are valid and none otherwise; the
\* callback that rejects a request (transport error, HTTP status, status of
\* the vendor such as an invalid token) issues no request, leaves the token as
\* it is and puts no request in flight.
C23_OneRequestPerCall ==
    [][/\ netCalls' \in {netCalls, netCalls + 1}
       /\ netCalls' = netCalls + 1 =>
            /\ last'.ev = "call"
            /\ last'.kind = "request"
            /\ Len(pending') = Len(pending) + 1
       /\ (last'.ev = "call" /\ last'.op \in Accessors) =>
            /\ last'.arg # Null =>
                (last'.kind = "request" <=>
                    /\ last'.tok0 # ""
                    /\ last'.op = "getVehicles" \/ ~Invalid(last'.op, last'.arg))
            /\ last'.kind # "request" => (netCalls' = netCalls /\ pending' = pending)
            /\ (last'.kind = "request" /\ now' = now) => netCalls' = netCalls + 1
       /\ (IsSettle(last', "_makeRequest()") /\ last'.kind = "reject") =>
            /\ netCalls' = netCalls
            /\ Len(pending') <= Len(pending)
            /\ token' = token]_vars

C23_Witness ==
    /\ IsSettle(last, "_makeRequest()")
    /\ last.kind = "reject"
    /\ last.body = Obj([status |-> Num(1)])
    /\ StatusCode(last) = Num(200)
    /\ last.error = Null
    /\ netCalls = 1
    /\ pending = <<>>
    /\ token = "T1"

(***************************************************************************)
(* Claims about the local endpoint (specification Spec)                    *)
(***************************************************************************)
\* C24: a GET /api request is answered with the snapshot only if the key it
\* supplied equals the digest computed at startup; a request without a key or
\* with another key is never answered with the snapshot.
C24_SnapshotOnlyForKey ==
    /\ reply.sent = "snapshot" => reply.key = Str(key)
    /\ (reply.sent # "none" /\ reply.key # Str(key)) => reply.sent \in {"error", "nothing"}

C24_Witness ==
    /\ reply.key = Str(API_KEY)
    /\ reply.sent = "error"
    /\ pc = "Done"

\* C28: a GET /api request with the right key is answered with the snapshot,
\* and the snapshot it gets is the initial one or the one of a pipeline that
\* is in Done, never one in which only some steps have written their fields.
C28_DefaultOrCompleteSnapshot ==
    (reply.sent # "none" /\ reply.key = Str(key)) =>
        /\ reply.sent = "snapshot"
        /\ \/ reply.body = Json(DefaultData)
           \/ pc = "Done" /\ reply.body = Json(data)

(***************************************************************************)
(* Further claims about the client and its error descriptor                *)
(* (specification ClientSpec)                                              *)
(***************************************************************************)
\* C25: two calls of _error with the same cause and the same function name,
\* made one after the other at any two times, return descriptors that are
\* equal once the time stamp debug.date is left out.
Undated(v) == [v EXCEPT !.debug = [f \in DOMAIN @ \ {"date"} |-> @[f]]]
C25_SameExceptTimestamp ==
    [][(IsCall(last, "_error") /\ IsCall(last', "_error") /\ last'.arg = last.arg) =>
        /\ Undated(last'.value) = Undated(last.value)
        /\ DOMAIN last'.value = DOMAIN last.value
        /\ DOMAIN last'.value.debug = DOMAIN last.value.debug]_vars

C25_Witness ==
    /\ IsCall(last, "_error")
    /\ last.arg.errorInfo = Str("boom")
    /\ last.value.debug.date = Num(1)
    /\ Get(last.value, "error") = Obj([message |-> Str("boom")])

\* C26: the promise of createSessionToken is resolved only for a login
\* response whose data.token is a non-empty string, and then the stored token
\* is that token; every request issued to the app API carries, in its token
\* header, the token stored when it is issued.
C26_TokenStoredAndSent ==
    /\ (IsSettle(last, "createSessionToken()") /\ last.kind = "resolve") =>
        LET tk == Get(Get(last.body, "data"), "token")
        IN /\ TypeOf(tk) = "string"
           /\ tk # Str("")
           /\ token = tk.s
           /\ last.value = Result(tk)
    /\ (last.ev = "call" /\ last.kind = "request" /\ last.op # "createSessionToken") =>
        /\ last.req.token = Str(last.tok0)
        /\ last.tok0 = token

C26_Witness ==
    /\ IsCall(last, "getVehicles")
    /\ last.kind = "request"
    /\ last.req.token = Str("T2")
    /\ netCalls = 2

\* C27: whatever calls and responses came before, an endpoint accessor called
\* while the stored token is empty is rejected with "No valid token
\* available." without a request, whatever its argument is (missing, null or
\* invalid parameters included), and a request issued by an accessor never
\* carries the empty token.
C27_NoRequestWithoutToken ==
    /\ (last.ev = "call" /\ last.op \in Accessors /\ last.tok0 = "") =>
        /\ last.kind = "reject"
        /\ Message(last) = Str("No valid token available.")
        /\ last.req = NoReq
    /\ (last.ev = "call" /\ last.op \in Accessors /\ last.kind = "request") =>
        /\ last.tok0 # ""
        /\ last.req.token # Str("")

C27_Witness ==
    /\ IsCall(last, "getOverallTally")
    /\ last.arg = Obj([sn |-> Num(1)])
    /\ last.tok0 = ""
    /\ last.kind = "reject"
    /\ Message(last) = Str("No valid token available.")
    /\ netCalls = 1

(***************************************************************************)
(* Further claims about the pipeline (specification Spec)                  *)
(***************************************************************************)
\* C29: while the pipeline is at the motor-info step the snapshot does not
\* change, whatever the response holds; the motor-info request is the sixth
\* request, issued by the battery-health handler, and the overall-tally
\* request is issued by the motor-info handler; a motor-info request that is
\* answered without success puts the pipeline in Failed with six requests
\* issued, and no request is issued from Failed.
C29_MotorInfoStep ==
    [][/\ pc = "FetchMotorInfo" => data' = data
       /\ (Len(calls) = 5 /\ Len(calls') = 6) =>
            /\ pc = "FetchBatteryHealth"
            /\ pc' = "FetchMotorInfo"
            /\ calls'[6].url = ExpectedUrls(Sn0.s)[6]
       /\ (Len(calls) = 6 /\ Len(calls') = 7) =>
            /\ pc = "FetchMotorInfo"
            /\ calls'[7].url = ExpectedUrls(Sn0.s)[7]
       /\ (pc = "FetchMotorInfo" /\ pending # <<>> /\ pending' = <<>>
                /\ last'.kind # "resolve") =>
            /\ pc' = "Failed"
            /\ pipeErr' = last'.value
            /\ Len(calls') = 6
       /\ pc = "Failed" => (pc' = "Failed" /\ calls' = calls)]_vars

(***************************************************************************)
(* Claims about _makeRequest (specification ClientSpec)                    *)
(***************************************************************************)
\* C30 as stated: _makeRequest called with the path missing or equal to the
\* empty string is rejected and request() is not invoked.
C30_EmptyPathRejected ==
    [][(IsCall(last', "_makeRequest") /\ last'.arg.k = "object"
            /\ Get(last'.arg, "path") \in {Undefined, Str("")}) =>
        (last'.kind = "reject" /\ netCalls' = netCalls)]_vars

\* C30 amended: _makeRequest called without options or with a path that is
\* missing or not a string is rejected with an error descriptor and request()
\* is not invoked; with a string path, the empty string included, the request
\* is issued to the base URL followed by the path.
C30_StringPathRequired ==
    [][(IsCall(last', "_makeRequest") /\ last'.arg # Null) =>
        IF TypeOf(Get(last'.arg, "path")) = "string"
          THEN /\ last'.kind = "request"
               /\ last'.req.url = AppApiBaseUrl \o Get(last'.arg, "path").s
          ELSE /\ last'.kind = "reject"
               /\ IsDescriptor(last'.value, "_makeRequest()")
               /\ Message(last') \in {Str("Options is missing."), Str("Path is missing.")}
               /\ netCalls' = netCalls
               /\ pending' = pending]_vars

C30_Witness ==
    /\ IsCall(last, "_makeRequest")
    /\ Get(last.arg, "path") = Str("")
    /\ last.kind = "request"
    /\ last.req.url = AppApiBaseUrl
    /\ netCalls = 1

\* C31: every GET /api request the process handles is answered, whether it
\* carries the right key, another key or no key at all: the handler never
\* returns without a reply having been sent for the request.
C31_EveryRequestAnswered ==
    reply.sent # "none" =>
        /\ reply.sent \in {"snapshot", "error"}
        /\ reply.body # Undefined

C31_Witness ==
    /\ reply.key = Undefined
    /\ reply.sent = "error"
    /\ pc = "Failed"
====
